---- MODULE Spec2Model ----
(***************************************************************************)
(* A model of the document-to-Markdown converter: the filename normalizer, *)
(* the image extraction / reference reconciliation of ImageProcessor, the  *)
(* Word and PDF document processors and the naming done by                 *)
(* DocumentConverter.convert_document.                                     *)
(*                                                                         *)
(* Strings are sequences of one-character tokens.  Characters outside      *)
(* ASCII are written as tokens: "FW(" is the full-width left parenthesis   *)
(* U+FF08, "FW?" the full-width question mark U+FF1F, "Zh" a CJK           *)
(* ideograph.                                                              *)
(***************************************************************************)
EXTENDS Integers, Sequences, FiniteSets, TLC

VARIABLES
    \* ---- filename normalizer / naming (src/utils/filename_normalizer.py, converter.py)
    filename,           \* the raw string handed to normalize_filename / the input file's stem
    is_document_title,  \* normalize_filename's flag
    max_length,         \* Config.FILENAME_NORMALIZATION['max_filename_length'] at call time
    route,              \* which branch of convert_document handles the document
    normalized,         \* normalize_filename(filename, is_document_title)
    renormalized,       \* normalize_filename(normalized, TRUE)
    output_stem,        \* stem of the Markdown file _get_output_path names
    image_dir_name,     \* last component of the directory the images are written to
    link_dir_name,      \* the directory component of the links written into the Markdown
    npc,                \* position of the naming run
    \* ---- image extraction and reference reconciliation (image_processor.py,
    \*      WordDocumentProcessor in document_processors.py)
    processor,          \* "ImageProcessor" or "WordDocumentProcessor"
    doc_type,           \* suffix of the source file: "docx", "pdf" or "other"
    readable,           \* whether the source container can be opened
    container,          \* the container's media entries / image objects, in listing order
    images_in_cwd,      \* whether images/<doc>/ resolves from the working directory
    doc_bracket,        \* whether doc_name contains a ']'
    markdown_content,   \* the converted text handed to the processor
    content,            \* the text being rewritten
    files,              \* the document's image directory: set of [num, ext, data]
    extracted_images,   \* the extractor's map, in insertion order: sequence of [key, path]
    image_counter,      \* ImageProcessor.image_counter[doc_name]
    base64_count,       \* processed_count of _process_base64_images
    url_count,          \* processed_count of _process_url_images
    path_count,         \* processed_count of _process_existing_image_paths
    total_images,       \* the count returned to the caller
    subst,              \* per text position, how many times a pass substituted it
    passes,             \* the substitution passes process_images has run, in order
    positional,         \* positions the path pass resolved by its positional fallback
    ppc,                \* position of the processing run
    \* ---- PDFDocumentProcessor (document_processors.py)
    pdf_doc,            \* the image objects of the PDF, in page order
    pdf_text,           \* the lines of the text handed to process_content
    pdf_image_pages,    \* PDFDocumentProcessor.pdf_image_pages
    pdf_lines,          \* the lines of the text process_content returns
    modes,              \* which of Mode A, B, C ran in process_content
    placed_by_a,        \* inserted_count of Mode A
    anchors,            \* the line_index of the best_ref of each image Mode A placed, in order
    pdf_count,          \* the count process_content returns
    qpc,                \* position of the PDF run
    \* ---- a batch of convert_document calls on one DocumentConverter (converter.py)
    batch,              \* the input documents, in the order they are converted
    converted,          \* how many of them convert_document has handled
    image_store,        \* the image files under output/images: set of [dir, owner]
    dir_of,             \* per converted document, the image subdirectory it used
    lost,               \* documents whose stored images another conversion removed
    \* ---- PDFDocumentProcessor._find_best_insertion_point on its own
    point_lines,        \* the lines it is given
    point_target,       \* the line Mode B computed from the page ratio
    point_result,       \* the position it returns
    xpc,                \* position of the call
    \* ---- DocumentConverter.convert_document, call after call (converter.py)
    calls,              \* the documents handed to convert_document so far
    results,            \* the result each call returned
    stats               \* DocumentConverter.stats

normVars == <<filename, is_document_title, max_length, route, normalized,
              renormalized, output_stem, image_dir_name, link_dir_name, npc>>

reconInputs == <<processor, doc_type, readable, container, images_in_cwd, doc_bracket,
                 markdown_content>>

reconVars == <<reconInputs, content, files, extracted_images, image_counter,
               base64_count, url_count, path_count, total_images, subst, passes,
               positional, ppc>>

pdfVars == <<pdf_doc, pdf_text, pdf_image_pages, pdf_lines, modes, placed_by_a,
             anchors, pdf_count, qpc>>

batchVars == <<batch, converted, image_store, dir_of, lost>>

pointVars == <<point_lines, point_target, point_result, xpc>>

convVars == <<calls, results, stats>>

vars == <<normVars, reconVars, pdfVars, batchVars, pointVars, convVars>>

-----------------------------------------------------------------------------
(* Bounds of the model *)

\* longest raw name explored
MaxNameLen == 3
\* configured max_filename_length values explored: 1..MaxConfiguredLength
MaxConfiguredLength == 3
\* most documents in a batch, and the longest stem of a batch document
MaxBatch == 2
MaxStemLen == 2
\* longest text explored, in items (text runs and image placeholders)
MaxItems == 2
\* most media entries / image objects in a source container
MaxMedia == 2
\* longest text handed to the PDF processor, in lines
MaxLines == 3
\* longest text handed to _find_best_insertion_point on its own, in lines
MaxPointLines == 12
\* most calls of convert_document on one converter, and most images of a
\* document handed to it
MaxCalls == 2
MaxConvImages == 2
\* most image objects in a PDF, and the pages they lie on
MaxPdfImages == 3
MaxPages == 2

-----------------------------------------------------------------------------
(* Generic string helpers (Python str / re semantics on token sequences) *)

RECURSIVE SeqsUpTo(_, _)
SeqsUpTo(S, n) ==
    IF n = 0 THEN {<<>>}
    ELSE LET shorter == SeqsUpTo(S, n - 1)
         IN  shorter \cup {Append(s, c) : s \in {t \in shorter : Len(t) = n - 1}, c \in S}

Min(a, b) == IF a < b THEN a ELSE b
Max(a, b) == IF a > b THEN a ELSE b

\* s[:n]
Prefix(s, n) == SubSeq(s, 1, Min(n, Len(s)))

\* str.replace(old, new) for a one-character old and a new of length 0 or 1
RECURSIVE StrReplace(_, _, _)
StrReplace(s, old, new) ==
    IF s = <<>> THEN <<>>
    ELSE (IF Head(s) = old THEN new ELSE <<Head(s)>>) \o StrReplace(Tail(s), old, new)

\* re.sub(c+, c, s): runs of the character c become one c
RECURSIVE CollapseRuns(_, _)
CollapseRuns(s, c) ==
    IF Len(s) < 2 THEN s
    ELSE IF s[1] = c /\ s[2] = c THEN CollapseRuns(Tail(s), c)
         ELSE <<s[1]>> \o CollapseRuns(Tail(s), c)

RECURSIVE LStrip(_, _)
LStrip(s, set) ==
    IF s # <<>> /\ Head(s) \in set THEN LStrip(Tail(s), set) ELSE s

RECURSIVE RStrip(_, _)
RStrip(s, set) ==
    IF s # <<>> /\ s[Len(s)] \in set THEN RStrip(SubSeq(s, 1, Len(s) - 1), set) ELSE s

\* str.strip(chars)
Strip(s, set) == RStrip(LStrip(s, set), set)

\* index of the last occurrence of c in s, 0 when there is none (str.rfind + 1)
RECURSIVE RFind(_, _)
RFind(s, c) ==
    IF s = <<>> THEN 0
    ELSE IF s[Len(s)] = c THEN Len(s) ELSE RFind(SubSeq(s, 1, Len(s) - 1), c)

\* os.path.splitext: the extension starts at the last dot of the last path
\* component, unless only dots precede it in that component
SplitExt(p) ==
    LET sepIndex == RFind(p, "/")
        dotIndex == RFind(p, ".")
    IN  IF dotIndex > sepIndex
           /\ \E k \in (sepIndex + 1)..(dotIndex - 1) : p[k] # "."
        THEN [name |-> SubSeq(p, 1, dotIndex - 1), ext |-> SubSeq(p, dotIndex, Len(p))]
        ELSE [name |-> p, ext |-> <<>>]

-----------------------------------------------------------------------------
(* FilenameNormalizer *)

\* the characters raw names are drawn from
Chars == {"a", "(", "FW(", "_", ".", " ", "FW?", "/"}

\* FILENAME_REPLACEMENT_CHARS, in table order (the entries of the same
\* replacement class as the modelled characters)
FILENAME_REPLACEMENT_CHARS ==
    << <<"FW(", <<"(">> >>,
       <<"FW)", <<")">> >>,
       <<"FW:", <<"_">> >>,
       <<"FW.", <<".">> >>,
       <<"FW?", <<>> >>,
       <<"FW!", <<>> >>,
       <<"\"", <<>> >>,
       <<"\\", <<"_">> >>,
       <<"/", <<"_">> >>,
       <<"*", <<"_">> >>,
       <<"?", <<>> >>,
       <<"|", <<"_">> >>,
       <<" ", <<"_">> >>,
       <<"\t", <<"_">> >> >>

\* the replacement loop: for old_char, new_char in table: name = name.replace(...)
RECURSIVE ReplaceSpecialChars(_, _)
ReplaceSpecialChars(name, k) ==
    IF k > Len(FILENAME_REPLACEMENT_CHARS) THEN name
    ELSE ReplaceSpecialChars(
             StrReplace(name, FILENAME_REPLACEMENT_CHARS[k][1], FILENAME_REPLACEMENT_CHARS[k][2]),
             k + 1)

\* Config.FILENAME_NORMALIZATION['convert_chinese_to_pinyin']
ConvertChineseToPinyin == FALSE

\* _chinese_to_pinyin: each CJK ideograph becomes its romanization
RECURSIVE ChineseToPinyin(_)
ChineseToPinyin(text) ==
    IF text = <<>> THEN <<>>
    ELSE (IF Head(text) = "Zh" THEN <<"z", "h">> ELSE <<Head(text)>>)
         \o ChineseToPinyin(Tail(text))

UNNAMED == <<"u", "n", "n", "a", "m", "e", "d">>

\* mutant of CleanName: name.strip('_').strip('.') instead of name.strip('_.')
CleanName_StripTwice(name) ==
    Strip(Strip(CollapseRuns(CollapseRuns(name, "_"), "."), {"_"}), {"."})

\* the clean-up after the replacements: collapse runs, strip the ends
CleanName(name) ==
    Strip(CollapseRuns(CollapseRuns(name, "_"), "."), {"_", "."})

\* the length limit applied when the name is not a document title
LimitLength(name, ext, maxlen) ==
    LET available_length == maxlen - Len(ext)
    IN  IF available_length > 0 /\ Len(name) > available_length
        THEN Prefix(name, available_length)
        ELSE IF available_length <= 0
             THEN Prefix(name, Min(10, maxlen \div 2))
             ELSE name

\* mutant of EnsureNotEmpty: the fallback to the placeholder is missing
EnsureNotEmpty_NoFallback(name) == name

\* if not name: name = "unnamed"
EnsureNotEmpty(name) == IF name = <<>> THEN UNNAMED ELSE name

normalize_filename(fname, title, maxlen) ==
    IF fname = <<>> THEN UNNAMED
    ELSE LET parts    == IF title THEN [name |-> fname, ext |-> <<>>] ELSE SplitExt(fname)
             replaced == StrReplace(ReplaceSpecialChars(parts.name, 1), " ", <<"_">>)
             pinyin   == IF ConvertChineseToPinyin /\ parts.ext # <<".", "m", "d">>
                         THEN ChineseToPinyin(replaced) ELSE replaced
             cleaned  == CleanName(pinyin)
             limited  == IF title THEN cleaned ELSE LimitLength(cleaned, parts.ext, maxlen)
             name     == EnsureNotEmpty(limited)
         IN  name \o parts.ext

-----------------------------------------------------------------------------
(* ImageProcessor._sanitize_filename *)

UNNAMED_DOCUMENT == <<"unnamed_document">>

\* re.sub(r'[<>:"/\\|?*()]', '_', filename)
RECURSIVE ReplaceUnsafe(_)
ReplaceUnsafe(s) ==
    IF s = <<>> THEN <<>>
    ELSE <<IF Head(s) \in {"<", ">", ":", "\"", "/", "\\", "|", "?", "*", "(", ")"}
           THEN "_" ELSE Head(s)>> \o ReplaceUnsafe(Tail(s))

\* re.sub(r'\s+', '_', s): every run of whitespace becomes one underscore
RECURSIVE WhitespaceRuns(_)
WhitespaceRuns(s) ==
    IF s = <<>> THEN <<>>
    ELSE IF Head(s) \in {" ", "\t"}
         THEN <<"_">> \o WhitespaceRuns(LStrip(s, {" ", "\t"}))
         ELSE <<Head(s)>> \o WhitespaceRuns(Tail(s))

ImageProcessor_sanitize_filename(fname) ==
    LET safe == Strip(WhitespaceRuns(Strip(ReplaceUnsafe(fname), {" ", "\t"})), {"."})
    IN  IF safe = <<>> THEN UNNAMED_DOCUMENT ELSE safe

-----------------------------------------------------------------------------
(* DirectoryManager._generate_directory_path: the directory name *)

\* _normalize_name with naming_strategy 'normalized' and normalization enabled
DirectoryManager_normalize_name(name) == normalize_filename(name, TRUE, 0)

\* _apply_document_type_config: every configured dir_prefix is empty
DirectoryManager_directory_name(doc_name) == DirectoryManager_normalize_name(doc_name)

-----------------------------------------------------------------------------
(* DocumentConverter: the names convert_document derives from the input file *)

\* _get_output_path: the stem of the .md file
get_output_stem(stem) == normalize_filename(stem, TRUE, 0)

Routes == {"process_images", "image_pdf", "image_file"}

\* the directory the document's images are written to
image_directory_name(stem, r) ==
    CASE r = "process_images" -> ImageProcessor_sanitize_filename(stem)
      [] r = "image_pdf"      -> stem
      [] r = "image_file"     -> DirectoryManager_directory_name(stem)

\* the directory the links of the document's Markdown name, below images/:
\* ImageProcessor._get_relative_image_path for process_images,
\* BaseDocumentProcessor._get_relative_image_path (DirectoryManager) for the
\* Markdown synthesized for an image-only PDF, and
\* _get_normalized_relative_path for an image file
link_directory_name(stem, r) ==
    CASE r = "process_images" -> ImageProcessor_sanitize_filename(stem)
      [] r = "image_pdf"      -> DirectoryManager_directory_name(stem)
      [] r = "image_file"     -> normalize_filename(stem, TRUE, 0)

\* Path(input_file).stem of an existing file: not empty, no path separator
IsStem(s) == s # <<>> /\ \A k \in 1..Len(s) : s[k] # "/"

-----------------------------------------------------------------------------
(* The naming specification: either normalize_filename is called on a raw   *)
(* string (route "call"), or convert_document names a document's outputs.   *)

\* no document is being processed: the processors hold no state between runs
ReconIdle ==
    /\ processor = "none"
    /\ doc_type = "other"
    /\ readable = FALSE
    /\ container = <<>>
    /\ images_in_cwd = FALSE
    /\ doc_bracket = FALSE
    /\ markdown_content = <<>>
    /\ content = <<>>
    /\ files = {}
    /\ extracted_images = <<>>
    /\ image_counter = 0
    /\ base64_count = 0
    /\ url_count = 0
    /\ path_count = 0
    /\ total_images = 0
    /\ subst = <<>>
    /\ passes = <<>>
    /\ positional = {}
    /\ ppc = "idle"

\* no PDF is being processed
PdfIdle ==
    /\ pdf_doc = <<>>
    /\ pdf_text = <<>>
    /\ pdf_image_pages = <<>>
    /\ pdf_lines = <<>>
    /\ modes = {}
    /\ placed_by_a = 0
    /\ anchors = <<>>
    /\ pdf_count = 0
    /\ qpc = "idle"

\* _find_best_insertion_point is not being called on its own
PointIdle ==
    /\ point_lines = <<>>
    /\ point_target = 0
    /\ point_result = 0
    /\ xpc = "idle"

\* the statistics of a new DocumentConverter
NewStats ==
    [total_files |-> 0, successful_conversions |-> 0, failed_conversions |-> 0,
     total_images_extracted |-> 0]

\* convert_document has not been called
ConvIdle ==
    /\ calls = <<>>
    /\ results = <<>>
    /\ stats = NewStats

\* no batch is being converted
BatchIdle ==
    /\ batch = <<>>
    /\ converted = 0
    /\ image_store = {}
    /\ dir_of = <<>>
    /\ lost = {}

NormInit ==
    /\ ReconIdle
    /\ PdfIdle
    /\ BatchIdle
    /\ PointIdle
    /\ ConvIdle
    /\ filename \in SeqsUpTo(Chars, MaxNameLen)
    /\ \/ /\ route = "call"
          /\ is_document_title \in BOOLEAN
          /\ max_length \in 1..MaxConfiguredLength
       \/ /\ route \in Routes
          /\ IsStem(filename)
          /\ is_document_title = TRUE
          /\ max_length = MaxConfiguredLength
    /\ normalized = <<>>
    /\ renormalized = <<>>
    /\ output_stem = <<>>
    /\ image_dir_name = <<>>
    /\ link_dir_name = <<>>
    /\ npc = "start"

\* one call normalize_filename(filename, is_document_title)
NormalizeFilename ==
    /\ npc = "start"
    /\ route = "call"
    /\ normalized' = normalize_filename(filename, is_document_title, max_length)
    /\ npc' = "normalized"
    /\ UNCHANGED <<batchVars, pointVars, convVars, filename, is_document_title, max_length, route, renormalized,
                   output_stem, image_dir_name, link_dir_name, reconVars, pdfVars>>

\* the title-mode normalizer applied to its own result
NormalizeAgain ==
    /\ npc = "normalized"
    /\ is_document_title
    /\ renormalized' = normalize_filename(normalized, TRUE, max_length)
    /\ npc' = "renormalized"
    /\ UNCHANGED <<batchVars, pointVars, convVars, filename, is_document_title, max_length, route, normalized,
                   output_stem, image_dir_name, link_dir_name, reconVars, pdfVars>>

\* convert_document: output path and image directory of the document
ConvertDocumentNames ==
    /\ npc = "start"
    /\ route \in Routes
    /\ output_stem' = get_output_stem(filename)
    /\ image_dir_name' = image_directory_name(filename, route)
    /\ link_dir_name' = link_directory_name(filename, route)
    /\ npc' = "named"
    /\ UNCHANGED <<batchVars, pointVars, convVars, filename, is_document_title, max_length, route, normalized,
                   renormalized, reconVars, pdfVars>>

NormNext == NormalizeFilename \/ NormalizeAgain \/ ConvertDocumentNames

SpecNorm == NormInit /\ [][NormNext]_vars

-----------------------------------------------------------------------------
(* Claims on naming *)

\* C1: for every converted document the image directory name equals the stem
\* of the output Markdown file.
C1_DirNameEqualsMarkdownStem ==
    npc = "named" => image_dir_name = output_stem

\* C7: title-mode normalization is idempotent: normalizing the result of a
\* title-mode call again returns that result.
C7_TitleNormalizeIdempotent ==
    npc = "renormalized" => renormalized = normalized

\* a title-mode call whose input was changed by the normalizer, normalized twice
C7_Witness ==
    /\ npc = "renormalized"
    /\ normalized # filename
    /\ normalized # UNNAMED
    /\ Len(filename) = MaxNameLen

\* the part of a returned name before the preserved extension
ResultStem(res, fname, title) ==
    IF title THEN res ELSE SubSeq(res, 1, Len(res) - Len(SplitExt(fname).ext))

\* what survives of the stem after replacement, clean-up and length limit
SurvivingStem(fname, title, maxlen) ==
    LET parts   == IF title THEN [name |-> fname, ext |-> <<>>] ELSE SplitExt(fname)
        cleaned == CleanName(StrReplace(ReplaceSpecialChars(parts.name, 1), " ", <<"_">>))
    IN  IF title THEN cleaned ELSE LimitLength(cleaned, parts.ext, maxlen)

\* C8: normalize_filename never returns the empty string, and when nothing of
\* the stem survives the returned stem is the placeholder "unnamed".
C8_NeverEmpty ==
    npc = "normalized" =>
        /\ normalized # <<>>
        /\ ResultStem(normalized, filename, is_document_title) # <<>>
        /\ (filename = <<>> \/ SurvivingStem(filename, is_document_title, max_length) = <<>>)
              => ResultStem(normalized, filename, is_document_title) = UNNAMED

\* a non-empty input of deleted and stripped characters only, with an extension
C8_Witness ==
    /\ npc = "normalized"
    /\ ~is_document_title
    /\ filename = <<"FW?", ".", "a">>
    /\ normalized = UNNAMED \o <<".", "a">>

-----------------------------------------------------------------------------
(* Image extraction and reference reconciliation.                           *)
(*                                                                          *)
(* A text is a sequence of items: runs of plain text and image syntax. Every*)
(* pass rewrites image syntax item by item (re.sub with a callback), so the *)
(* positions of a text are stable through the run.                          *)

\* one item of a text.  alt = 0: the alt text of the input; alt = n > 0: the
\* generated alt "image_<doc_name>_<n:03d>".  canon: the file name has the
\* stored form image_<num:03d>.<ext>; otherwise it is image<num>.<ext>, or a
\* name without digits when num = 0.
Item(kind, fmt, state, data, alt, scheme, dir, canon, num, ext, local) ==
    [kind |-> kind, fmt |-> fmt, state |-> state, data |-> data, alt |-> alt,
     scheme |-> scheme, dir |-> dir, canon |-> canon, num |-> num, ext |-> ext,
     local |-> local]

\* a run of text without image syntax
PlainText == Item("text", "", "", 0, 0, "", "", FALSE, 0, "", FALSE)

\* ![alt](data:image/<fmt>;base64...)  the marker the upstream converter
\* leaves when it drops the payload
TruncatedPlaceholder(fmt) ==
    Item("truncated", fmt, "", 0, 0, "", "", FALSE, 0, "", FALSE)

\* ![alt](data:image/<fmt>;base64,<payload>)  state: "ok" the payload decodes
\* to a valid image and is saved; "invalid" it fails to decode or
\* ImageInfo.is_valid is false; "unsavable" writing the file fails
Base64Placeholder(fmt, state) ==
    Item("base64", fmt, state, 0, 0, "", "", FALSE, 0, "", FALSE)

\* ![alt](<scheme><dir>/<name>.<ext>)  local: the path names an existing file
\* relative to the working directory; data: what that file holds
ImageLink(scheme, dir, num, ext, local, data) ==
    Item("link", "", "", data, 0, scheme, dir, FALSE, num, ext, local)

\* ![image_<doc_name>_<n:03d>](images/<safe_doc_name>/image_<num:03d>.<ext>)
Reference(n, num, ext) ==
    Item("link", "", "", 0, n, "", "doc", TRUE, num, ext, FALSE)

\* ![image](images/<normalized_doc_name>/image_<num:03d>.<ext>): the alt text
\* of _generate_image_alt_text, which, ALT_TEXT_CONFIG['use_simple_alt'] being
\* set, is the fixed word "image" (alt = -1)
SimpleAltReference(num, ext) ==
    Item("link", "", "", 0, -1, "", "doc", TRUE, num, ext, FALSE)

\* WordDocumentProcessor keeps a non-empty alt text of the input (n = 0)
IsReference(it) == it.kind = "link" /\ it.dir = "doc" /\ it.canon

IsDataPlaceholder(it) == it.kind \in {"truncated", "base64"}

\* the items a text is drawn from
ItemKinds ==
    { PlainText,
      TruncatedPlaceholder("png"),
      Base64Placeholder("png", "ok"),
      Base64Placeholder("png", "invalid"),
      Base64Placeholder("png", "unsavable"),
      ImageLink("", "media", 1, "png", FALSE, 0),       \* media/image1.png
      ImageLink("", "media", 2, "png", FALSE, 0),       \* media/image2.png
      ImageLink("http", "media", 1, "png", FALSE, 0),   \* http://host/images/image1.png
      ImageLink("", "media", 0, "png", FALSE, 0),       \* media/photo.png
      ImageLink("", "other", 0, "png", TRUE, 90) }      \* pics/photo.png, an existing file

\* the k-th data placeholder of a text carries the document's k-th image
DataOrdinal(t, i) == Cardinality({j \in 1..i : IsDataPlaceholder(t[j])})

NumberPayloads(t) ==
    [i \in 1..Len(t) |->
        IF IsDataPlaceholder(t[i]) THEN [t[i] EXCEPT !.data = DataOrdinal(t, i)]
        ELSE t[i]]

Texts == {NumberPayloads(t) : t \in SeqsUpTo(ItemKinds, MaxItems)}

\* one entry under word/media/ of a .docx, or one image object of a .pdf.
\* type "other": an entry the extractor skips (unsupported suffix, CMYK).
\* outcome: "ok"; "error" reading or writing it raises; "lost" the write
\* returns but the file is not there afterwards.
MediaEntry(type, ext, outcome) == [type |-> type, ext |-> ext, outcome |-> outcome]

DocxEntries ==
    { MediaEntry("image", "png", "ok"), MediaEntry("image", "jpeg", "ok"),
      MediaEntry("image", "png", "error"), MediaEntry("image", "png", "lost"),
      MediaEntry("other", "emf", "ok") }

\* Pixmap.save always writes .png
PdfEntries == {e \in DocxEntries : e.ext # "jpeg"}

\* the entry at position i of a .docx is named image<i>.<ext>; it holds the
\* document's k-th image, k its rank among the image entries
ImageOrdinal(c, i) == Cardinality({j \in 1..i : c[j].type = "image"})

\* a file of the image directory is image_<num:03d>.<ext>
StoredFile(num, ext, data) == [num |-> num, ext |-> ext, data |-> data]

WriteFile(fs, num, ext, data) ==
    {f \in fs : ~(f.num = num /\ f.ext = ext)} \cup {StoredFile(num, ext, data)}

FileExists(fs, num, ext) == \E f \in fs : f.num = num /\ f.ext = ext

FileData(fs, num, ext) == (CHOOSE f \in fs : f.num = num /\ f.ext = ext).data

\* keys of the extractor's map: "name" the entry's own file name
\* image<num>.<ext>, "index" image<num>, "padded" image_<num:03d>
MapKey(kind, num, ext) == [kind |-> kind, num |-> num, ext |-> ext]

MapEntry(key, num, ext) == [key |-> key, path |-> [num |-> num, ext |-> ext]]

HasKey(m, key) == \E k \in 1..Len(m) : m[k].key = key

Lookup(m, key) == m[CHOOSE k \in 1..Len(m) : m[k].key = key].path

\* dict assignment: a present key keeps its place and takes the new value
Assign(m, key, num, ext) ==
    IF HasKey(m, key)
    THEN [k \in 1..Len(m) |-> IF m[k].key = key THEN MapEntry(key, num, ext) ELSE m[k]]
    ELSE Append(m, MapEntry(key, num, ext))

\* the distinct stored paths of a map
MapPaths(m) == {m[k].path : k \in 1..Len(m)}

\* ImageProcessor._extract_from_docx, from entry i on.  One try block holds
\* the loop: an entry that raises ends the extraction with the map so far.
RECURSIVE ExtractFromDocx(_, _, _, _)
ExtractFromDocx(c, i, m, fs) ==
    IF i > Len(c) THEN [map |-> m, files |-> fs]
    ELSE IF c[i].type # "image" THEN ExtractFromDocx(c, i + 1, m, fs)
    ELSE IF c[i].outcome = "error" THEN [map |-> m, files |-> fs]
    ELSE ExtractFromDocx(c, i + 1,
            Assign(Assign(m, MapKey("name", i, c[i].ext), i, c[i].ext),
                   MapKey("index", i, ""), i, c[i].ext),
            IF c[i].outcome = "ok"
            THEN WriteFile(fs, i, c[i].ext, ImageOrdinal(c, i)) ELSE fs)

\* ImageProcessor._extract_from_pdf: image_count numbers every image object,
\* CMYK ones included; only "image<n>" keys are recorded
RECURSIVE ExtractFromPdf(_, _, _, _)
ExtractFromPdf(c, i, m, fs) ==
    IF i > Len(c) THEN [map |-> m, files |-> fs]
    ELSE IF c[i].outcome = "error" THEN [map |-> m, files |-> fs]
    ELSE IF c[i].type # "image" THEN ExtractFromPdf(c, i + 1, m, fs)
    ELSE ExtractFromPdf(c, i + 1,
            Assign(m, MapKey("index", i, ""), i, "png"),
            IF c[i].outcome = "ok"
            THEN WriteFile(fs, i, "png", ImageOrdinal(c, i)) ELSE fs)

\* ImageProcessor._extract_images_from_source
extract_images_from_source(type, ok, c) ==
    IF ~ok THEN [map |-> <<>>, files |-> {}]
    ELSE IF type = "docx" THEN ExtractFromDocx(c, 1, <<>>, {})
    ELSE IF type = "pdf" THEN ExtractFromPdf(c, 1, <<>>, {})
    ELSE [map |-> <<>>, files |-> {}]

\* WordDocumentProcessor.extract_images: the same loop inside one try block;
\* an image is recorded under "image_<i:03d>" only if its file exists
RECURSIVE WordExtract(_, _, _, _)
WordExtract(c, i, m, fs) ==
    IF i > Len(c) THEN [map |-> m, files |-> fs]
    ELSE IF c[i].type # "image" THEN WordExtract(c, i + 1, m, fs)
    ELSE IF c[i].outcome = "error" THEN [map |-> m, files |-> fs]
    ELSE IF c[i].outcome = "lost" THEN WordExtract(c, i + 1, m, fs)
    ELSE WordExtract(c, i + 1, Assign(m, MapKey("padded", i, ""), i, c[i].ext),
                     WriteFile(fs, i, c[i].ext, ImageOrdinal(c, i)))

Word_extract_images(ok, c) ==
    IF ~ok THEN [map |-> <<>>, files |-> {}] ELSE WordExtract(c, 1, <<>>, {})

\* ImageInfo.get_file_extension, without the dot
get_file_extension(fmt) ==
    IF fmt \in {"jpeg", "jpg"} THEN "jpg"
    ELSE IF fmt \in {"png", "gif", "bmp", "webp"} THEN fmt
    ELSE "png"

\* the suffixes url_pattern and path_pattern accept, and the globs of
\* replace_image_path
UrlSuffixes == {"png", "jpg", "jpeg", "gif", "bmp", "webp", "tiff"}
PathSuffixes == {"png", "jpg", "jpeg", "gif", "bmp", "svg", "webp"}

\* "![" [^\]]* "](" : a generated alt text holds doc_name, and a ']' in it
\* ends the alt group before the "](" of the reference
AltMatches(it) == ~(it.alt > 0 /\ doc_bracket)

url_pattern(it) == it.kind = "link" /\ AltMatches(it) /\ it.ext \in UrlSuffixes

\* (media|images|image)/ occurs in the target: the "media" links of the input
\* and every reference to images/<safe_doc_name>/
path_pattern(it) ==
    /\ it.kind = "link" /\ AltMatches(it)
    /\ it.dir \in {"media", "doc"} /\ it.ext \in PathSuffixes

\* the state a pass threads through its callbacks
PassState(c, fs, counter, count, sb, raised) ==
    [content |-> c, files |-> fs, counter |-> counter, count |-> count,
     subst |-> sb, raised |-> raised, positional |-> {}]

\* the callback returns a new reference for position i
Substitute(st, i, num, ext, fs, counter) ==
    [st EXCEPT !.content[i] = Reference(st.count + 1, num, ext),
               !.files = fs, !.counter = counter, !.count = @ + 1,
               !.subst[i] = @ + 1]

\* replace_truncated_image: the first of possible_keys present in the map.
\* The zero-padded key image<n:03d>.<fmt> names no entry of this model: the
\* entries of a container are named image<i>.<ext>.
possible_keys(m, pc, fmt) ==
    << MapKey("name", pc + 1, fmt), MapKey("index", pc + 1, ""),
       MapKey("index", Len(m), "") >>

RECURSIVE FirstKey(_, _, _)
FirstKey(m, keys, k) ==
    IF k > Len(keys) THEN [found |-> FALSE, path |-> [num |-> 0, ext |-> ""]]
    ELSE IF HasKey(m, keys[k]) THEN [found |-> TRUE, path |-> Lookup(m, keys[k])]
    ELSE FirstKey(m, keys, k + 1)

\* a marker with no stored image takes the else branch, whose log line reads
\* alt_text before it is assigned: UnboundLocalError leaves re.sub and
\* _process_base64_images
replace_truncated_image(st, i, m) ==
    LET it == st.content[i]
        r  == FirstKey(m, possible_keys(m, st.count, it.fmt), 1)
    IN  IF st.raised \/ it.kind # "truncated" THEN st
        ELSE IF r.found /\ FileExists(st.files, r.path.num, r.path.ext)
        THEN Substitute(st, i, r.path.num, r.path.ext, st.files, st.counter)
        ELSE [st EXCEPT !.raised = TRUE]

\* a variant that names every decoded image image_001
replace_base64_image_FixedName(st, i) ==
    LET it   == st.content[i]
        ext  == get_file_extension(it.fmt)
    IN  IF st.raised \/ it.kind # "base64" THEN st
        ELSE IF it.state # "ok" THEN st
        ELSE Substitute(st, i, 1, ext, WriteFile(st.files, 1, ext, it.data), st.counter + 1)

\* replace_base64_image: _generate_image_filename advances the counter before
\* the file is written
replace_base64_image(st, i) ==
    LET it   == st.content[i]
        n    == st.counter + 1
        ext  == get_file_extension(it.fmt)
    IN  IF st.raised \/ it.kind # "base64" THEN st
        ELSE IF it.state = "invalid" THEN st
        ELSE IF it.state = "unsavable" THEN [st EXCEPT !.counter = n]
        ELSE Substitute(st, i, n, ext, WriteFile(st.files, n, ext, it.data), n)

\* Path(image_url).exists(): a reference to images/<safe_doc_name>/ resolves
\* only if the images directory lies under the working directory
LocalFileExists(it, fs) ==
    IF it.dir = "doc" /\ it.canon
    THEN images_in_cwd /\ FileExists(fs, it.num, it.ext)
    ELSE it.local

LocalFileData(it, fs) ==
    IF it.dir = "doc" /\ it.canon THEN FileData(fs, it.num, it.ext) ELSE it.data

\* _is_local_file
is_local_file(it) == it.scheme \in {"", "file"}

\* replace_url_image: an existing local file is copied under the next name;
\* everything else is returned as it is
replace_url_image(st, i) ==
    LET it  == st.content[i]
        n   == st.counter + 1
        ext == get_file_extension(it.ext)
    IN  IF url_pattern(it) /\ is_local_file(it) /\ LocalFileExists(it, st.files)
        THEN Substitute(st, i, n, ext,
                        WriteFile(st.files, n, ext, LocalFileData(it, st.files)), n)
        ELSE st

\* sorted(possible_files): by file name, i.e. by number, then by suffix
SuffixOrder == <<"bmp", "gif", "jpeg", "jpg", "png", "svg", "webp">>

SuffixRank(ext) == CHOOSE k \in 1..Len(SuffixOrder) : SuffixOrder[k] = ext

NameBefore(f, g) ==
    \/ f.num < g.num
    \/ f.num = g.num /\ SuffixRank(f.ext) < SuffixRank(g.ext)

RECURSIVE SortedFiles(_)
SortedFiles(fs) ==
    IF fs = {} THEN <<>>
    ELSE LET f == CHOOSE x \in fs : \A y \in fs \ {x} : NameBefore(x, y)
         IN  <<f>> \o SortedFiles(fs \ {f})

\* replace_image_path: exact name, then the first file with the same number,
\* then the file at position min(processed_count, len - 1)
ExactMatches(it, possible_files) ==
    {k \in 1..Len(possible_files) : it.canon /\ possible_files[k].num = it.num
                                        /\ possible_files[k].ext = it.ext}

NumberMatches(it, possible_files) ==
    {k \in 1..Len(possible_files) : it.num > 0 /\ possible_files[k].num = it.num}

matched_file(it, possible_files, pc) ==
    LET n     == Len(possible_files)
        exact == ExactMatches(it, possible_files)
        byNum == NumberMatches(it, possible_files)
    IN  IF exact # {} THEN possible_files[CHOOSE k \in exact : \A j \in exact : k <= j]
        ELSE IF byNum # {} THEN possible_files[CHOOSE k \in byNum : \A j \in byNum : k <= j]
        ELSE possible_files[Min(pc, n - 1) + 1]

replace_image_path(st, i) ==
    LET it == st.content[i]
        possible_files == SortedFiles({f \in st.files : f.ext \in PathSuffixes})
        f  == matched_file(it, possible_files, st.count)
        by_position == /\ ExactMatches(it, possible_files) = {}
                       /\ NumberMatches(it, possible_files) = {}
    IN  IF path_pattern(it) /\ possible_files # <<>>
        THEN [Substitute(st, i, f.num, f.ext, st.files, st.counter)
                 EXCEPT !.positional = IF by_position THEN @ \cup {i} ELSE @]
        ELSE st

\* pattern.sub(callback, content): the callback on every position, left to right
RECURSIVE TruncatedPass(_, _, _)
TruncatedPass(st, i, m) ==
    IF i > Len(st.content) THEN st
    ELSE TruncatedPass(replace_truncated_image(st, i, m), i + 1, m)

RECURSIVE Base64Pass(_, _)
Base64Pass(st, i) ==
    IF i > Len(st.content) THEN st ELSE Base64Pass(replace_base64_image(st, i), i + 1)

RECURSIVE UrlPass(_, _)
UrlPass(st, i) ==
    IF i > Len(st.content) THEN st ELSE UrlPass(replace_url_image(st, i), i + 1)

RECURSIVE PathPass(_, _)
PathPass(st, i) ==
    IF i > Len(st.content) THEN st ELSE PathPass(replace_image_path(st, i), i + 1)

\* _process_base64_images: the truncated markers first, then the payloads,
\* sharing one processed_count
process_base64_images(c, fs, counter, sb, m) ==
    Base64Pass(TruncatedPass(PassState(c, fs, counter, 0, sb, FALSE), 1, m), 1)

process_url_images(c, fs, counter, sb) ==
    UrlPass(PassState(c, fs, counter, 0, sb, FALSE), 1)

process_existing_image_paths(c, fs, counter, sb) ==
    PathPass(PassState(c, fs, counter, 0, sb, FALSE), 1)

\* sorted(extracted_images.items(), key=_extract_image_number): by the number
\* in the key; the keys of WordDocumentProcessor are image_<i:03d>
RECURSIVE SortedImages(_)
SortedImages(m) ==
    IF m = <<>> THEN <<>>
    ELSE LET k == CHOOSE x \in 1..Len(m) :
                    \A y \in 1..Len(m) :
                        m[x].key.num < m[y].key.num
                        \/ (m[x].key.num = m[y].key.num /\ x <= y)
         IN  <<m[k]>> \o SortedImages([j \in 1..(Len(m) - 1) |->
                                          IF j < k THEN m[j] ELSE m[j + 1]])

\* re.search(r'image(\d+)', original_path): the links image<num>.<ext> of the
\* input; a stored name image_<num:03d> has no digit after "image"
ImageNumberOf(it) == IF it.canon THEN 0 ELSE it.num

\* replace_image_link of _normalize_image_links, at position i.  st holds the
\* text, base64_counter and the substitution record.
replace_image_link(st, i, m) ==
    LET it     == st.content[i]
        sorted == SortedImages(m)
        byKey  == {k \in 1..Len(m) : m[k].key.num = ImageNumberOf(it)}
        first  == CHOOSE k \in byKey : \A j \in byKey : k <= j
    IN  IF IsDataPlaceholder(it)
        THEN IF st.counter <= Len(sorted)
             THEN [content |-> [st.content EXCEPT ![i] =
                                  Reference(0, sorted[st.counter].path.num,
                                            sorted[st.counter].path.ext)],
                   counter |-> st.counter + 1,
                   subst   |-> [st.subst EXCEPT ![i] = @ + 1]]
             ELSE [st EXCEPT !.counter = @ + 1]
        ELSE IF it.kind = "link" /\ ImageNumberOf(it) > 0 /\ byKey # {}
        THEN [st EXCEPT !.content[i] = SimpleAltReference(m[first].path.num,
                                                          m[first].path.ext),
                        !.subst[i] = @ + 1]
        ELSE st

RECURSIVE NormalizeLinks(_, _, _)
NormalizeLinks(st, i, m) ==
    IF i > Len(st.content) THEN st
    ELSE NormalizeLinks(replace_image_link(st, i, m), i + 1, m)

\* WordDocumentProcessor._normalize_image_links
normalize_image_links(c, sb, m) ==
    IF m = <<>> THEN [content |-> c, counter |-> 1, subst |-> sb]
    ELSE NormalizeLinks([content |-> c, counter |-> 1, subst |-> sb], 1, m)

\* len([img for img in extracted_images.values() if os.path.exists(img)])
ExistingImages(m, fs) ==
    Cardinality({k \in 1..Len(m) : FileExists(fs, m[k].path.num, m[k].path.ext)})

-----------------------------------------------------------------------------
(* The reconciliation specification: one document is handed to             *)
(* ImageProcessor.process_images, or to WordDocumentProcessor's            *)
(* extract_images and process_content.                                     *)

\* the naming run does not take part
NormIdle ==
    /\ filename = <<>>
    /\ is_document_title = FALSE
    /\ max_length = MaxConfiguredLength
    /\ route = "none"
    /\ normalized = <<>>
    /\ renormalized = <<>>
    /\ output_stem = <<>>
    /\ image_dir_name = <<>>
    /\ link_dir_name = <<>>
    /\ npc = "idle"

ReconInit ==
    /\ NormIdle
    /\ PdfIdle
    /\ BatchIdle
    /\ PointIdle
    /\ ConvIdle
    /\ markdown_content \in Texts
    /\ \/ /\ processor = "ImageProcessor"
          /\ images_in_cwd \in BOOLEAN
          /\ doc_bracket \in BOOLEAN
          /\ \/ /\ doc_type = "docx"
                /\ \/ readable = TRUE /\ container \in SeqsUpTo(DocxEntries, MaxMedia)
                   \/ readable = FALSE /\ container = <<>>
             \/ /\ doc_type = "pdf"
                /\ \/ readable = TRUE /\ container \in SeqsUpTo(PdfEntries, MaxMedia)
                   \/ readable = FALSE /\ container = <<>>
             \/ /\ doc_type = "other"
                /\ readable = TRUE
                /\ container = <<>>
       \/ /\ processor = "WordDocumentProcessor"
          /\ images_in_cwd = FALSE
          /\ doc_bracket = FALSE
          /\ doc_type = "docx"
          /\ \/ readable = TRUE /\ container \in SeqsUpTo(DocxEntries, MaxMedia)
             \/ readable = FALSE /\ container = <<>>
    /\ content = markdown_content
    /\ files = {}
    /\ extracted_images = <<>>
    /\ image_counter = 0
    /\ base64_count = 0
    /\ url_count = 0
    /\ path_count = 0
    /\ total_images = 0
    /\ subst = [i \in 1..Len(markdown_content) |-> 0]
    /\ passes = <<>>
    /\ positional = {}
    /\ ppc = "start"

\* process_images up to the extraction: the counter is reset, the old image
\* directory removed and created again, the source's images extracted
ExtractImagesFromSource ==
    /\ ppc = "start"
    /\ processor = "ImageProcessor"
    /\ LET r == extract_images_from_source(doc_type, readable, container)
       IN  /\ extracted_images' = r.map
           /\ files' = r.files
    /\ image_counter' = 0
    /\ ppc' = "extracted"
    /\ UNCHANGED <<batchVars, pointVars, convVars, pdfVars, normVars, reconInputs, content, base64_count, url_count,
                   path_count, total_images, subst, passes, positional>>

\* process_images: _process_base64_images.  An exception of a callback
\* leaves process_images; convert_document reports the document as failed.
ProcessBase64Images ==
    /\ ppc = "extracted"
    /\ LET st == process_base64_images(content, files, image_counter, subst,
                                       extracted_images)
       IN  /\ content' = st.content
           /\ files' = st.files
           /\ image_counter' = st.counter
           /\ base64_count' = st.count
           /\ subst' = st.subst
           /\ passes' = passes \o (IF st.raised THEN <<"truncated">>
                                    ELSE <<"truncated", "base64">>)
           /\ ppc' = IF st.raised THEN "raised" ELSE "base64_done"
    /\ UNCHANGED <<batchVars, pointVars, convVars, pdfVars, normVars, reconInputs, extracted_images, url_count, path_count,
                   total_images, positional>>

\* process_images: _process_url_images
ProcessUrlImages ==
    /\ ppc = "base64_done"
    /\ LET st == process_url_images(content, files, image_counter, subst)
       IN  /\ content' = st.content
           /\ files' = st.files
           /\ image_counter' = st.counter
           /\ url_count' = st.count
           /\ subst' = st.subst
    /\ passes' = Append(passes, "url")
    /\ ppc' = "url_done"
    /\ UNCHANGED <<batchVars, pointVars, convVars, pdfVars, normVars, reconInputs, extracted_images, base64_count,
                   path_count, total_images, positional>>

\* process_images: _process_existing_image_paths and the returned total
ProcessExistingImagePaths ==
    /\ ppc = "url_done"
    /\ LET st == process_existing_image_paths(content, files, image_counter, subst)
       IN  /\ content' = st.content
           /\ path_count' = st.count
           /\ subst' = st.subst
           /\ positional' = st.positional
           /\ total_images' = base64_count + url_count + st.count
    /\ passes' = Append(passes, "path")
    /\ ppc' = "done"
    /\ UNCHANGED <<batchVars, pointVars, convVars, pdfVars, normVars, reconInputs, files, extracted_images, image_counter,
                   base64_count, url_count>>

\* WordDocumentProcessor.extract_images
WordExtractImages ==
    /\ ppc = "start"
    /\ processor = "WordDocumentProcessor"
    /\ LET r == Word_extract_images(readable, container)
       IN  /\ extracted_images' = r.map
           /\ files' = r.files
    /\ ppc' = "extracted_word"
    /\ UNCHANGED <<batchVars, pointVars, convVars, pdfVars, normVars, reconInputs, content, image_counter, base64_count,
                   url_count, path_count, total_images, subst, passes, positional>>

\* WordDocumentProcessor.process_content
WordProcessContent ==
    /\ ppc = "extracted_word"
    /\ LET st == normalize_image_links(content, subst, extracted_images)
       IN  /\ content' = st.content
           /\ subst' = st.subst
    /\ total_images' = ExistingImages(extracted_images, files)
    /\ ppc' = "done"
    /\ UNCHANGED <<batchVars, pointVars, convVars, pdfVars, normVars, reconInputs, files, extracted_images, image_counter,
                   base64_count, url_count, path_count, passes, positional>>

ReconNext ==
    \/ ExtractImagesFromSource
    \/ ProcessBase64Images
    \/ ProcessUrlImages
    \/ ProcessExistingImagePaths
    \/ WordExtractImages
    \/ WordProcessContent

SpecRecon == ReconInit /\ [][ReconNext]_vars

-----------------------------------------------------------------------------
(* PDFDocumentProcessor: extraction with page numbers and the three ways    *)
(* process_content places images.                                           *)
(*                                                                          *)
(* A text is the list content.split('\n').  A line is one of a few kinds;   *)
(* positions are counted from 0 as in the code.                             *)

Line(kind, n) == [kind |-> kind, n |-> n]

\* the lines of an input text:
\*   "blank"     an empty line
\*   "heading"   "# 概述"
\*   "para"      30 characters of running text, no final punctuation
\*   "sentence"  30 characters of running text ending with "。"
\*   "compound"  "图 2-1 诊疗流程图": a compound caption with a domain keyword
\*   "simple"    "图 2": a simple caption
\*   "double"    "图 1 和图 2": two simple captions on one line
\*   "keyword"   "如图": a bare cross-reference
LineKinds ==
    { Line("blank", 0), Line("heading", 0), Line("para", 0), Line("sentence", 0),
      Line("compound", 0), Line("simple", 0), Line("double", 0), Line("keyword", 0) }

\* len(line)
LineLength(l) ==
    CASE l.kind = "blank"    -> 0
      [] l.kind = "heading"  -> 4
      [] l.kind = "para"     -> 30
      [] l.kind = "sentence" -> 30
      [] l.kind = "compound" -> 11
      [] l.kind = "simple"   -> 3
      [] l.kind = "double"   -> 8
      [] l.kind = "keyword"  -> 2

\* not line.strip()
IsBlankLine(l) == l.kind = "blank"

\* line.strip().startswith('#')
IsHeadingLine(l) == l.kind \in {"heading", "title", "page_heading"}

\* line ends with one of the four sentence terminators
EndsSentence(l) == l.kind = "sentence"

\* the line at position i, counted from 0
At(lines, i) == lines[i + 1]

\* list.insert(pos, x): a position past the end appends
ListInsert(lines, pos, x) ==
    LET p == Min(pos, Len(lines))
    IN  SubSeq(lines, 1, p) \o <<x>> \o SubSeq(lines, p + 1, Len(lines))

\* the inserted reference ![alt](images/<doc>/image_<n:03d>.png)
ImageLine(n) == Line("image", n)

\* len(content.strip()): the blank lines at both ends go, the newlines between
\* the remaining lines count
RECURSIVE SumLengths(_, _, _)
SumLengths(lines, a, b) ==
    IF a > b THEN 0 ELSE LineLength(lines[a]) + SumLengths(lines, a + 1, b)

StrippedLength(lines) ==
    LET solid == {i \in 1..Len(lines) : ~IsBlankLine(lines[i])}
        a == CHOOSE i \in solid : \A j \in solid : i <= j
        b == CHOOSE i \in solid : \A j \in solid : i >= j
    IN  IF solid = {} THEN 0 ELSE SumLengths(lines, a, b) + (b - a)

\* process_content: the shortest text that is not taken for an image-only PDF
MinTextLength == 50

\* the scores of the references the 'sequential' patterns find on a line, in
\* hundredths, in the order figure_references lists them.  The 'keyword'
\* patterns of the table are never scanned.
\*   "图 2-1 诊疗流程图": second number, '图' and '-' in the line: 0.85, and a
\*                       keyword of ['诊疗', '流程', '示意', '获得性']: + 0.1
\*   "图 2": no second number: 0.6
CaptionScores(l) ==
    CASE l.kind = "compound" -> <<95>>
      [] l.kind = "simple"   -> <<60>>
      [] l.kind = "double"   -> <<60, 60>>
      [] OTHER               -> <<>>

\* figure_references of a text, sorted by line_index
RECURSIVE figure_references(_, _)
figure_references(lines, i) ==
    IF i >= Len(lines) THEN <<>>
    ELSE [k \in 1..Len(CaptionScores(At(lines, i))) |->
             [line_index |-> i, score |-> CaptionScores(At(lines, i))[k]]]
         \o figure_references(lines, i + 1)

\* best_ref: a reference must score above 0.25
MinScore == 25

\* the lines _find_insert_position_after_reference looks at
LookAhead == 10

\* _find_insert_position_after_reference
find_insert_position_after_reference(lines, ref_line) ==
    LET window == (ref_line + 1)..(Min(ref_line + LookAhead, Len(lines)) - 1)
        stop(i) == IsBlankLine(At(lines, i)) \/ IsHeadingLine(At(lines, i))
        next(i) == /\ EndsSentence(At(lines, i))
                   /\ i + 1 < Len(lines)
                   /\ (IsBlankLine(At(lines, i + 1)) \/ IsHeadingLine(At(lines, i + 1)))
        hits == {i \in window : stop(i) \/ next(i)}
        i0 == CHOOSE i \in hits : \A j \in hits : i <= j
    IN  IF hits = {} THEN ref_line + 1
        ELSE IF stop(i0) THEN i0 ELSE i0 + 1

\* a variant of the best_ref search that does not look at used_references
BestRef_IgnoreUsed(refs, used) ==
    LET ok == {k \in 1..Len(refs) : refs[k].score > MinScore}
    IN  IF ok = {} THEN 0 ELSE CHOOSE k \in ok : \A j \in ok : k <= j

\* the first reference whose line is not used and whose score passes
BestRef(refs, used) ==
    LET ok == {k \in 1..Len(refs) : refs[k].line_index \notin used /\ refs[k].score > MinScore}
    IN  IF ok = {} THEN 0 ELSE CHOOSE k \in ok : \A j \in ok : k <= j

\* _insert_images_by_reference_patterns, from the k-th image of sorted_images
\* on.  st: the lines, the used line indices, inserted_count, and the
\* line_index of each best_ref in the order they were taken.
RECURSIVE ReferenceLoop(_, _, _, _, _)
ReferenceLoop(st, images, k, refs, fs) ==
    IF k > Len(images) THEN st
    ELSE IF ~FileExists(fs, images[k].path.num, images[k].path.ext)
    THEN ReferenceLoop(st, images, k + 1, refs, fs)
    ELSE LET b == BestRef(refs, st.used)
         IN  IF b = 0 THEN ReferenceLoop(st, images, k + 1, refs, fs)
             ELSE LET ref == refs[b].line_index
                      adjustment == 2 * Cardinality({u \in st.used : u < ref})
                      insert_pos == find_insert_position_after_reference(st.lines, ref)
                                       + adjustment
                  IN  ReferenceLoop(
                        [lines |-> ListInsert(ListInsert(st.lines, insert_pos, Line("blank", 0)),
                                              insert_pos + 1, ImageLine(images[k].key.num)),
                         used |-> st.used \cup {ref},
                         inserted |-> st.inserted + 1,
                         anchors |-> Append(st.anchors, ref)],
                        images, k + 1, refs, fs)

\* Mode A.  The text is returned as it came when nothing was inserted.
insert_images_by_reference_patterns(lines, images, fs) ==
    LET st == ReferenceLoop([lines |-> lines, used |-> {}, inserted |-> 0,
                             anchors |-> <<>>],
                            images, 1, figure_references(lines, 0), fs)
    IN  IF st.inserted > 0 THEN st ELSE [st EXCEPT !.lines = lines]

\* _find_best_insertion_point looks this many lines to either side
SearchRange == 10

\* _insert_images_by_page_ratio: a page is taken to hold this many lines, and
\* a document at least this many pages
LinesPerPage == 50
MinEstimatedPages == 10

\* _find_best_insertion_point: the first blank line or heading from the
\* target on, else the line after the last one before the target, else the
\* target itself
find_best_insertion_point(lines, target_line) ==
    LET start == Max(0, target_line - SearchRange)
        end   == Min(Len(lines), target_line + SearchRange)
        stop(i) == IsBlankLine(At(lines, i)) \/ IsHeadingLine(At(lines, i))
        fwd == {i \in target_line..(end - 1) : i < Len(lines) /\ stop(i)}
        bwd == {i \in start..(target_line - 1) : i >= 0 /\ stop(i)}
    IN  IF fwd # {} THEN CHOOSE i \in fwd : \A j \in fwd : i <= j
        ELSE IF bwd # {} THEN (CHOOSE i \in bwd : \A j \in bwd : i >= j) + 1
        ELSE target_line

\* pdf_image_pages.get(key, default)
PageOf(pages, n, default) == IF n \in DOMAIN pages THEN pages[n] ELSE default

\* _insert_images_by_page_ratio (Mode B), from the k-th image on.  For the
\* texts explored int((page_num / estimated_total_pages) * total_lines) is
\* the integer quotient.
RECURSIVE PageRatioLoop(_, _, _, _, _, _)
PageRatioLoop(lines, images, k, pages, fs, total_lines) ==
    IF k > Len(images) THEN lines
    ELSE IF ~FileExists(fs, images[k].path.num, images[k].path.ext)
    THEN PageRatioLoop(lines, images, k + 1, pages, fs, total_lines)
    ELSE LET estimated_total_pages == Max(MinEstimatedPages, total_lines \div LinesPerPage)
             page_num == PageOf(pages, images[k].key.num, 1)
             estimated_line ==
                 Max(0, Min((page_num * total_lines) \div estimated_total_pages,
                            total_lines - 1))
             best_position == find_best_insertion_point(lines, estimated_line)
         IN  PageRatioLoop(
               ListInsert(ListInsert(lines, best_position, Line("blank", 0)),
                          best_position + 1, ImageLine(images[k].key.num)),
               images, k + 1, pages, fs, total_lines)

insert_images_by_page_ratio(lines, images, pages, fs) ==
    PageRatioLoop(lines, images, 1, pages, fs, Len(lines))

\* a variant of _create_image_based_markdown that never sets
\* images_added_to_page
RECURSIVE ImageBasedLoop_HeadingPerImage(_, _, _, _, _, _, _)
ImageBasedLoop_HeadingPerImage(out, images, k, current_page, added, pages, fs) ==
    IF k > Len(images) THEN out
    ELSE IF ~FileExists(fs, images[k].path.num, images[k].path.ext)
    THEN ImageBasedLoop_HeadingPerImage(out, images, k + 1, current_page, added, pages, fs)
    ELSE LET image_page == PageOf(pages, images[k].key.num, current_page)
         IN  ImageBasedLoop_HeadingPerImage(
               out \o <<Line("page_heading", image_page), Line("blank", 0),
                        ImageLine(images[k].key.num), Line("blank", 0)>>,
               images, k + 1, image_page, FALSE, pages, fs)

\* _create_image_based_markdown (Mode C), from the k-th image on
RECURSIVE ImageBasedLoop(_, _, _, _, _, _, _)
ImageBasedLoop(out, images, k, current_page, added, pages, fs) ==
    IF k > Len(images) THEN out
    ELSE IF ~FileExists(fs, images[k].path.num, images[k].path.ext)
    THEN ImageBasedLoop(out, images, k + 1, current_page, added, pages, fs)
    ELSE LET image_page == PageOf(pages, images[k].key.num, current_page)
             new_page   == image_page # current_page
             heading    == IF new_page \/ ~added
                           THEN <<Line("page_heading", image_page), Line("blank", 0)>>
                           ELSE <<>>
         IN  ImageBasedLoop(
               out \o heading \o <<ImageLine(images[k].key.num), Line("blank", 0)>>,
               images, k + 1, image_page, TRUE, pages, fs)

\* the title and the notice precede the pages
create_image_based_markdown(images, pages, fs) ==
    ImageBasedLoop(<<Line("title", 0), Line("blank", 0), Line("notice", 0), Line("blank", 0)>>,
                   images, 1, 1, FALSE, pages, fs)

\* a variant of _insert_images_intelligently that runs Mode B after Mode A
\* whatever Mode A did
insert_images_intelligently_AlwaysB(lines, images, pages, fs) ==
    LET a == insert_images_by_reference_patterns(lines, images, fs)
    IN  [lines |-> insert_images_by_page_ratio(a.lines, images, pages, fs),
         modes |-> {"A", "B"}, placed |-> a.inserted,
              anchors |-> a.anchors]

\* _insert_images_intelligently: Mode A, and Mode B when Mode A returned the
\* text it was given
insert_images_intelligently(lines, images, pages, fs) ==
    LET a == insert_images_by_reference_patterns(lines, images, fs)
    IN  IF a.lines # lines
        THEN [lines |-> a.lines, modes |-> {"A"}, placed |-> a.inserted,
              anchors |-> a.anchors]
        ELSE [lines |-> insert_images_by_page_ratio(lines, images, pages, fs),
              modes |-> {"A", "B"}, placed |-> a.inserted,
              anchors |-> a.anchors]

\* PDFDocumentProcessor.process_content.  modes, placed and anchors record
\* which of the three ways ran, how many images Mode A inserted and at which
\* references.
Pdf_process_content(lines, m, pages, fs) ==
    IF m = <<>> THEN [lines |-> lines, count |-> 0, modes |-> {}, placed |-> 0,
                      anchors |-> <<>>]
    ELSE LET sorted_images == SortedImages(m)
             r == IF StrippedLength(lines) < MinTextLength
                  THEN [lines |-> create_image_based_markdown(sorted_images, pages, fs),
                        modes |-> {"C"}, placed |-> 0, anchors |-> <<>>]
                  ELSE insert_images_intelligently(lines, sorted_images, pages, fs)
         IN  [lines |-> r.lines, count |-> ExistingImages(sorted_images, fs),
              modes |-> r.modes, placed |-> r.placed, anchors |-> r.anchors]

\* one image object of a page: "ok" it is saved, "cmyk" it is skipped,
\* "error" creating or saving its pixmap raises
PdfImageObjects == [page : 1..MaxPages, fate : {"ok", "cmyk", "error"}]

\* the image objects of a document in the order of the page loop
PdfDocuments ==
    {d \in SeqsUpTo(PdfImageObjects, MaxPdfImages) :
        \A i \in 1..Len(d), j \in 1..Len(d) : i < j => d[i].page <= d[j].page}

\* PDFDocumentProcessor.extract_images, from image object i on: image_count
\* numbers every object, and an exception ends the extraction
RECURSIVE PdfExtract(_, _, _, _, _)
PdfExtract(d, i, m, pages, fs) ==
    IF i > Len(d) \/ d[i].fate = "error" THEN [map |-> m, pages |-> pages, files |-> fs]
    ELSE IF d[i].fate = "cmyk" THEN PdfExtract(d, i + 1, m, pages, fs)
    ELSE PdfExtract(d, i + 1, Assign(m, MapKey("padded", i, ""), i, "png"),
                    [n \in DOMAIN pages \cup {i} |-> IF n = i THEN d[i].page ELSE pages[n]],
                    WriteFile(fs, i, "png", i))

Pdf_extract_images(d) == PdfExtract(d, 1, <<>>, <<>>, {})

-----------------------------------------------------------------------------
(* The PDF specification: a PDFDocumentProcessor extracts the images of a   *)
(* document, files of the image directory may disappear, and               *)
(* process_content places the images in a text.                            *)

PdfInit ==
    /\ NormIdle
    /\ ReconIdle
    /\ BatchIdle
    /\ PointIdle
    /\ ConvIdle
    /\ pdf_doc \in PdfDocuments
    /\ pdf_text \in SeqsUpTo(LineKinds, MaxLines) \ {<<>>}
    /\ pdf_image_pages = <<>>
    /\ pdf_lines = pdf_text
    /\ modes = {}
    /\ placed_by_a = 0
    /\ anchors = <<>>
    /\ pdf_count = 0
    /\ qpc = "start"

\* PDFDocumentProcessor.extract_images
PdfExtractImages ==
    /\ qpc = "start"
    /\ LET r == Pdf_extract_images(pdf_doc)
       IN  /\ extracted_images' = r.map
           /\ pdf_image_pages' = r.pages
           /\ files' = r.files
    /\ qpc' = "extracted"
    /\ UNCHANGED <<batchVars, pointVars, convVars, normVars, reconInputs, content, image_counter, base64_count,
                   url_count, path_count, total_images, subst, passes, positional, ppc,
                   pdf_doc, pdf_text, pdf_lines, modes, placed_by_a, anchors, pdf_count>>

\* the environment: a stored image is removed before the text is processed
RemoveImageFile ==
    /\ qpc = "extracted"
    /\ \E f \in files : files' = files \ {f}
    /\ UNCHANGED <<batchVars, pointVars, convVars, normVars, reconInputs, content, extracted_images, image_counter,
                   base64_count, url_count, path_count, total_images, subst, passes, positional, ppc,
                   pdfVars>>

\* PDFDocumentProcessor.process_content
PdfProcessContent ==
    /\ qpc = "extracted"
    /\ LET r == Pdf_process_content(pdf_text, extracted_images, pdf_image_pages, files)
       IN  /\ pdf_lines' = r.lines
           /\ pdf_count' = r.count
           /\ modes' = r.modes
           /\ placed_by_a' = r.placed
           /\ anchors' = r.anchors
    /\ qpc' = "done"
    /\ UNCHANGED <<batchVars, pointVars, convVars, normVars, reconVars, pdf_doc, pdf_text, pdf_image_pages>>

PdfNext == PdfExtractImages \/ RemoveImageFile \/ PdfProcessContent

SpecPdf == PdfInit /\ [][PdfNext]_vars

-----------------------------------------------------------------------------
(* Claims on extraction and reconciliation *)

\* positions of the inline base64 placeholders of a text, in text order
RECURSIVE Base64Positions(_, _)
Base64Positions(t, i) ==
    IF i > Len(t) THEN <<>>
    ELSE IF t[i].kind = "base64" THEN <<i>> \o Base64Positions(t, i + 1)
    ELSE Base64Positions(t, i + 1)

\* the stored paths of the extracted images, in ascending sequence order
ExtractedInOrder == SortedFiles({StoredFile(p.num, p.ext, 0) : p \in MapPaths(extracted_images)})

\* N inline base64 placeholders against N extracted images, the k-th
\* placeholder carrying the k-th extracted image
NPlaceholdersNImages ==
    LET ps == Base64Positions(markdown_content, 1)
    IN  /\ ppc = "done"
        /\ Len(ps) = Len(ExtractedInOrder)
        /\ \A k \in 1..Len(ps) :
              markdown_content[ps[k]].data = ImageOrdinal(container, ExtractedInOrder[k].num)

\* every placeholder is substituted, no payload remains, and the k-th
\* placeholder references a stored file that holds the k-th image
AllSubstitutedInOrder ==
    LET ps == Base64Positions(markdown_content, 1)
    IN  /\ \A i \in 1..Len(content) : content[i].kind # "base64"
        /\ \A k \in 1..Len(ps) :
              /\ IsReference(content[ps[k]])
              /\ subst[ps[k]] > 0
              /\ FileExists(files, content[ps[k]].num, content[ps[k]].ext)
              /\ FileData(files, content[ps[k]].num, content[ps[k]].ext)
                    = ImageOrdinal(container, ExtractedInOrder[k].num)

PayloadsValidAndSaved ==
    \A i \in 1..Len(markdown_content) :
        /\ markdown_content[i].kind = "base64" => markdown_content[i].state = "ok"
        /\ markdown_content[i].kind # "truncated"

C3_UnresolvedLeftUnmodified ==
    /\ ppc # "raised"
    /\ ppc = "done" =>
          \A i \in 1..Len(content) : subst[i] = 0 => content[i] = markdown_content[i]

\* the recognised image entries of a container, and those that fail
ImageEntries(c) == {i \in 1..Len(c) : c[i].type = "image"}
FailingEntries(c) == {i \in ImageEntries(c) : c[i].outcome # "ok"}

\* C4: for a Word container with N recognised image entries of which the
\* subset F fail, the extraction returns N - |F| entries, those after a
\* failure included.
C4_ExtractionSkipsOnlyFailures ==
    (ppc \in {"extracted", "extracted_word"} /\ doc_type = "docx" /\ readable)
        => Cardinality(MapPaths(extracted_images))
              = Cardinality(ImageEntries(container)) - Cardinality(FailingEntries(container))

\* C10: the count process_images returns is the number of placeholders
\* substituted, each counted once.
C10_CountEqualsSubstituted ==
    (ppc = "done" /\ processor = "ImageProcessor")
        => total_images = Cardinality({i \in 1..Len(content) : subst[i] > 0})

-----------------------------------------------------------------------------
(* Claims on the PDF processor *)

\* C5: with a non-empty map of extracted images, a text that is empty or
\* shorter than the minimum length is handled by Mode C alone; any other text
\* goes through Mode A first, Mode B runs if and only if Mode A placed no
\* image, and when Mode A placed one its output is what is returned.
C5_ModeSelection ==
    (qpc = "done" /\ extracted_images # <<>>) =>
        LET a == insert_images_by_reference_patterns(pdf_text,
                     SortedImages(extracted_images), files)
        IN  IF StrippedLength(pdf_text) < MinTextLength
            THEN modes = {"C"}
            ELSE /\ "A" \in modes
                 /\ "C" \notin modes
                 /\ placed_by_a = a.inserted
                 /\ "B" \in modes <=> placed_by_a = 0
                 /\ placed_by_a > 0 => pdf_lines = a.lines

IsImageLine(l) == l.kind = "image"

C5_Witness ==
    /\ qpc = "done"
    /\ modes = {"A", "B"}
    /\ Len(SelectSeq(pdf_lines, IsImageLine)) = MaxPdfImages
    /\ \E i \in 1..Len(pdf_text) : pdf_text[i].kind = "keyword"

\* the extracted images whose file exists, in ascending sequence order
ImageFileExists(e) == FileExists(files, e.path.num, e.path.ext)

ExistingPdfImages == SelectSeq(SortedImages(extracted_images), ImageFileExists)

\* the image numbers of the existing images recorded for page p, in order
RECURSIVE NumbersOnPage(_, _)
NumbersOnPage(images, p) ==
    IF images = <<>> THEN <<>>
    ELSE (IF pdf_image_pages[Head(images).key.num] = p
          THEN <<Head(images).key.num>> ELSE <<>>)
         \o NumbersOnPage(Tail(images), p)

HeadingLines == {i \in 1..Len(pdf_lines) : pdf_lines[i].kind = "page_heading"}

\* the image numbers between the heading at line i and the next heading
RECURSIVE ImageNumbers(_)
ImageNumbers(lines) ==
    IF lines = <<>> THEN <<>>
    ELSE (IF IsImageLine(Head(lines)) THEN <<Head(lines).n>> ELSE <<>>)
         \o ImageNumbers(Tail(lines))

ImagesUnder(i) ==
    LET later == {j \in HeadingLines : j > i}
        stop  == IF later = {} THEN Len(pdf_lines) + 1
                 ELSE CHOOSE j \in later : \A k \in later : j <= k
    IN  ImageNumbers(SubSeq(pdf_lines, i + 1, stop - 1))

\* C6: the document Mode C writes has exactly one page heading for every page
\* number recorded for an image whose file exists, the headings in ascending
\* page order, and under each heading exactly the images of that page in
\* ascending sequence order.
C6_OneHeadingPerPage ==
    (qpc = "done" /\ modes = {"C"}) =>
        LET pages == {pdf_image_pages[ExistingPdfImages[k].key.num] :
                         k \in 1..Len(ExistingPdfImages)}
        IN  /\ \A p \in pages : Cardinality({i \in HeadingLines : pdf_lines[i].n = p}) = 1
            /\ \A i \in HeadingLines : pdf_lines[i].n \in pages
            /\ \A i, j \in HeadingLines : i < j => pdf_lines[i].n < pdf_lines[j].n
            /\ \A i \in HeadingLines :
                  ImagesUnder(i) = NumbersOnPage(ExistingPdfImages, pdf_lines[i].n)
            /\ Len(ImageNumbers(pdf_lines)) = Len(ExistingPdfImages)

C6_Witness ==
    /\ qpc = "done"
    /\ modes = {"C"}
    /\ Cardinality(HeadingLines) = MaxPages
    /\ \E i \in HeadingLines : Len(ImagesUnder(i)) > 1

\* C9: a line with a compound caption ("图 2-1") and a domain keyword yields a
\* caption reference that scores strictly higher than the caption reference
\* of a line holding only the bare keyword "如图".
C9_CompoundOutscoresKeyword ==
    qpc = "done" =>
        LET refs == figure_references(pdf_text, 0)
        IN  \A i, j \in 0..(Len(pdf_text) - 1) :
               (At(pdf_text, i).kind = "compound" /\ At(pdf_text, j).kind = "keyword")
                  => \E a, b \in 1..Len(refs) :
                        /\ refs[a].line_index = i
                        /\ refs[b].line_index = j
                        /\ refs[a].score > refs[b].score

-----------------------------------------------------------------------------
(* Claims on the emitted references *)

\* C11: every successful substitution, of ImageProcessor and of the document
\* processors alike, emits ![image_<docName>_<ordinal:03d>](images/<doc>/<file>):
\* the alt text of the input is replaced by the generated one and the target
\* is the directory-relative path of a stored file name.
C11_GeneratedAltAndCanonicalPath ==
    ppc = "done" =>
        \A i \in 1..Len(content) :
            subst[i] > 0 => (IsReference(content[i]) /\ content[i].alt > 0)

\* C12: when the source container cannot be opened at all, the extraction ends
\* in an error that fails the document: it never completes as an extraction
\* (of zero images) after which the document is processed to its end.
C12_UnreadableContainerFails ==
    ppc \in {"extracted", "extracted_word", "done"} => readable

\* C13: an image reference whose target is a network URL (a scheme other than
\* file) is in the output of process_images what it was in the input,
\* whatever its path components and whatever the image directory holds.
C13_NetworkUrlsUntouched ==
    (ppc = "done" /\ processor = "ImageProcessor") =>
        \A i \in 1..Len(content) :
            (markdown_content[i].kind = "link" /\ ~is_local_file(markdown_content[i]))
                => content[i] = markdown_content[i]

\* C14: the path of every image reference written into a document's Markdown,
\* resolved against the output directory, is the path at which the extractor
\* stored the image: the links name the directory the images were written to.
C14_LinksNameTheStoredDirectory ==
    npc = "named" => link_dir_name = image_dir_name

-----------------------------------------------------------------------------
(* A batch: convert_document is called on one document after the other, on  *)
(* one DocumentConverter and so on one ImageProcessor and one output        *)
(* directory.                                                               *)

\* the characters the stems of a batch are drawn from
BatchChars == {"a", "(", "_"}

\* an input document: the stem and suffix of its path, whether MarkItDown
\* finds no text in it (an image-only PDF), and how many images it holds
BatchDocuments ==
    {d \in [stem : SeqsUpTo(BatchChars, MaxStemLen) \ {<<>>},
            suffix : {"docx", "pdf", "png"},
            image_only : BOOLEAN,
            images : 0..1] :
        /\ d.image_only => d.suffix = "pdf"
        /\ d.suffix = "png" => d.images = 1}

\* the branch of convert_document that handles a document
RouteOf(d) ==
    IF d.suffix = "png" THEN "image_file"
    ELSE IF d.suffix = "pdf" /\ d.image_only THEN "image_pdf"
    ELSE "process_images"

\* the batches: documents with pairwise different paths
Batches ==
    {b \in SeqsUpTo(BatchDocuments, MaxBatch) :
        \A i, j \in 1..Len(b) :
            i # j => (b[i].stem # b[j].stem \/ b[i].suffix # b[j].suffix)}

BatchInit ==
    /\ NormIdle
    /\ ReconIdle
    /\ PdfIdle
    /\ PointIdle
    /\ ConvIdle
    /\ batch \in Batches
    /\ converted = 0
    /\ image_store = {}
    /\ dir_of = <<>>
    /\ lost = {}

\* convert_document on the next document of the batch.  process_images
\* removes the document's image directory if it exists and creates it again;
\* the other two routes create it if it is missing.  The document's images
\* are then stored as image_001.<ext>, ..., replacing files of these names.
ConvertDocument ==
    /\ converted < Len(batch)
    /\ LET k == converted + 1
           d == batch[k]
           dir == image_directory_name(d.stem, RouteOf(d))
           cleared == IF RouteOf(d) = "process_images"
                      THEN {f \in image_store : f.dir = dir} ELSE {}
           written == IF d.images > 0 THEN {[dir |-> dir, owner |-> k]} ELSE {}
           replaced == {f \in image_store \ cleared : written # {} /\ f.dir = dir}
       IN  /\ image_store' = ((image_store \ cleared) \ replaced) \cup written
           /\ lost' = lost \cup {f.owner : f \in cleared \cup replaced}
           /\ dir_of' = Append(dir_of, dir)
           /\ converted' = k
    /\ UNCHANGED <<normVars, reconVars, pdfVars, pointVars, convVars, batch>>

BatchNext == ConvertDocument

SpecBatch == BatchInit /\ [][BatchNext]_vars

\* C15: across a batch no two distinct input documents write into, clear or
\* delete the same image subdirectory, and converting one document never
\* removes or overwrites image files stored for another document.
C15_NoSharedImageDirectory ==
    /\ lost = {}
    /\ \A i, j \in 1..Len(dir_of) : i # j => dir_of[i] # dir_of[j]

-----------------------------------------------------------------------------
(* Claims on the characters of a normalized name *)

\* the keys of the replacement table
ReplacementKeys ==
    {FILENAME_REPLACEMENT_CHARS[k][1] : k \in 1..Len(FILENAME_REPLACEMENT_CHARS)}

\* C16: for every input and both values of is_document_title the string
\* normalize_filename returns holds no character that is a key of the
\* replacement table.
C16_NoUnsafeCharacter ==
    npc = "normalized" =>
        \A k \in 1..Len(normalized) : normalized[k] \notin ReplacementKeys

-----------------------------------------------------------------------------
(* Claims on the substitution passes of process_images *)

\* C17: process_images runs its passes in the order truncated markers,
\* inline base64 images, path references, local-file URL references: at any
\* moment the passes run so far are an initial part of that order.
C17_PassOrder ==
    \E n \in 0..4 :
        passes = SubSeq(<<"truncated", "base64", "path", "url">>, 1, n)

\* C18: a reference written by one pass of process_images is never matched
\* or rewritten by a later pass: from the step that wrote it on, that
\* position of the text stays as it is.
C18_WrittenReferencesStay ==
    [][\A i \in 1..Len(content) :
          (processor = "ImageProcessor" /\ IsReference(content[i]))
              => content'[i] = content[i]]_vars

\* positions of the truncated markers of a text, in text order
RECURSIVE TruncatedPositions(_, _)
TruncatedPositions(t, i) ==
    IF i > Len(t) THEN <<>>
    ELSE IF t[i].kind = "truncated" THEN <<i>> \o TruncatedPositions(t, i + 1)
    ELSE TruncatedPositions(t, i + 1)

\* C19: after the truncated pass the N-th truncated marker references the
\* N-th extracted image in ascending sequence order, for every N up to the
\* number of extracted images, and no image is referenced by two markers,
\* also when skipped container entries leave gaps in the numbering.
C19_TruncatedBoundInOrder ==
    (ppc = "base64_done" /\ processor = "ImageProcessor") =>
        LET ps == TruncatedPositions(markdown_content, 1)
        IN  /\ \A k \in 1..Min(Len(ps), Len(ExtractedInOrder)) :
                  /\ IsReference(content[ps[k]])
                  /\ content[ps[k]].num = ExtractedInOrder[k].num
                  /\ content[ps[k]].ext = ExtractedInOrder[k].ext
            /\ \A j, k \in 1..Len(ps) :
                  (j # k /\ IsReference(content[ps[j]]) /\ IsReference(content[ps[k]]))
                      => <<content[ps[j]].num, content[ps[j]].ext>>
                            # <<content[ps[k]].num, content[ps[k]].ext>>

\* C20: in the path pass the positional fallback never gives one stored file
\* to two references: two positions resolved by position reference
\* different files, and a file given by position is referenced nowhere else.
C20_PositionalFallbackDistinct ==
    (ppc = "done" /\ processor = "ImageProcessor") =>
        \A i \in positional : \A j \in 1..Len(content) :
            (j # i /\ IsReference(content[j]) /\ subst[j] > 0)
                => <<content[i].num, content[i].ext>> # <<content[j].num, content[j].ext>>

-----------------------------------------------------------------------------
(* Claims on the placing of images in a PDF text *)

\* C21: in Mode A every caption line is the anchor of at most one inserted
\* image: each image placed takes a line index that no earlier image took,
\* so the anchors taken are pairwise different and as many as the images
\* placed, also when a line holds several caption matches.
C21_AnchorUsedOnce ==
    /\ Len(anchors) = placed_by_a
    /\ \A i, j \in 1..Len(anchors) : i # j => anchors[i] # anchors[j]

C21_Witness ==
    /\ qpc = "done"
    /\ Len(anchors) = 2
    /\ \E i \in 1..Len(pdf_text) : pdf_text[i].kind = "double"
    /\ Len(SelectSeq(SortedImages(extracted_images), ImageFileExists)) = 3

-----------------------------------------------------------------------------
(* Stored images that are gone when the text is processed: the PDF          *)
(* processor, and the Word processor with its image directory exposed to    *)
(* the same loss between extract_images and process_content.                *)

\* the environment: a stored image is removed before WordDocumentProcessor
\* processes the text
RemoveWordImageFile ==
    /\ ppc = "extracted_word"
    /\ \E f \in files : files' = files \ {f}
    /\ UNCHANGED <<batchVars, pointVars, convVars, normVars, pdfVars, reconInputs, content, extracted_images,
                   image_counter, base64_count, url_count, path_count, total_images,
                   subst, passes, positional, ppc>>

MissingInit == PdfInit \/ (ReconInit /\ processor = "WordDocumentProcessor")

MissingNext ==
    \/ PdfNext
    \/ WordExtractImages
    \/ RemoveWordImageFile
    \/ WordProcessContent

SpecMissing == MissingInit /\ [][MissingNext]_vars

\* C22: an extracted image whose file does not exist when the text is
\* processed is not referenced in the output and not counted, in the PDF
\* processor (Modes A, B, C) and in the Word link normalizer.
C22_MissingFileNeverReferenced ==
    /\ qpc = "done" =>
          /\ \A k \in 1..Len(extracted_images) :
                ~ImageFileExists(extracted_images[k]) =>
                    \A i \in 1..Len(pdf_lines) :
                        pdf_lines[i] # ImageLine(extracted_images[k].key.num)
          /\ pdf_count = ExistingImages(extracted_images, files)
    /\ (ppc = "done" /\ processor = "WordDocumentProcessor") =>
          /\ \A i \in 1..Len(content) :
                (IsReference(content[i]) /\ subst[i] > 0) =>
                    FileExists(files, content[i].num, content[i].ext)
          /\ total_images = ExistingImages(extracted_images, files)

-----------------------------------------------------------------------------
(* _find_best_insertion_point on its own: texts long enough for the search  *)
(* window to end inside the text.                                           *)

\* texts of running lines with up to two blank lines or headings
PointTexts ==
    { [i \in 1..n |-> IF i = a THEN Line(ka, 0)
                      ELSE IF i = b THEN Line(kb, 0)
                      ELSE Line("para", 0)] :
        n \in 1..MaxPointLines, a \in 0..MaxPointLines, b \in 0..MaxPointLines,
        ka \in {"blank", "heading"}, kb \in {"blank", "heading"} }

PointInit ==
    /\ NormIdle
    /\ ReconIdle
    /\ PdfIdle
    /\ BatchIdle
    /\ ConvIdle
    /\ point_lines \in PointTexts
    /\ point_target \in 0..(Len(point_lines) - 1)
    /\ point_result = 0
    /\ xpc = "start"

\* best_position = self._find_best_insertion_point(lines, estimated_line)
FindBestInsertionPoint ==
    /\ xpc = "start"
    /\ point_result' = find_best_insertion_point(point_lines, point_target)
    /\ xpc' = "found"
    /\ UNCHANGED <<normVars, reconVars, pdfVars, batchVars, convVars, point_lines,
                   point_target>>

PointNext == FindBestInsertionPoint

SpecPoint == PointInit /\ [][PointNext]_vars

\* the lines of the search window that are blank or a heading
WindowStops ==
    {i \in Max(0, point_target - SearchRange)
              ..(Min(Len(point_lines), point_target + SearchRange) - 1) :
        IsBlankLine(At(point_lines, i)) \/ IsHeadingLine(At(point_lines, i))}

Distance(a, b) == IF a >= b THEN a - b ELSE b - a

\* C23: the position _find_best_insertion_point returns lies within the
\* window of 10 lines around the target; when the window holds a blank line
\* or a heading it is the index of the one nearest to the target; it is the
\* target itself only when the window holds none.
C23_NearestBreakInWindow ==
    xpc = "found" =>
        /\ Distance(point_result, point_target) <= SearchRange
        /\ WindowStops # {} =>
              /\ point_result \in WindowStops
              /\ \A j \in WindowStops :
                    Distance(point_result, point_target) <= Distance(j, point_target)
        /\ WindowStops = {} => point_result = point_target

-----------------------------------------------------------------------------
(* Claims on the references Modes A and B insert *)

\* C29: in the output of Mode A and of Mode B the inserted references stand
\* in ascending sequence order: of two placed images the one with the lower
\* number is referenced on the earlier line.
C29_ReferencesInSequenceOrder ==
    (qpc = "done" /\ "C" \notin modes) =>
        LET ns == ImageNumbers(pdf_lines)
        IN  \A i, j \in 1..Len(ns) : i < j => ns[i] < ns[j]

\* C30: for a text long enough for Modes A and B the count returned is the
\* number of references inserted into the returned text, and every extracted
\* image whose file exists is referenced exactly once, also when Mode A finds
\* fewer caption lines than there are images.
C30_CountEqualsInserted ==
    (qpc = "done" /\ "C" \notin modes) =>
        LET ns == ImageNumbers(pdf_lines)
        IN  /\ pdf_count = Len(ns)
            /\ \A k \in 1..Len(ExistingPdfImages) :
                  Cardinality({i \in 1..Len(ns) : ns[i] = ExistingPdfImages[k].key.num}) = 1

-----------------------------------------------------------------------------
(* Claims on the shape of a normalized stem *)

\* C26: for every input and both modes, the stem normalize_filename returns
\* (the part before the kept extension) holds no run of two underscores or
\* of two dots and neither starts nor ends with an underscore or a dot, also
\* after the truncation to the maximum length.
C26_StemCleanAfterTruncation ==
    npc = "normalized" =>
        LET stem == ResultStem(normalized, filename, is_document_title)
        IN  /\ \A k \in 1..(Len(stem) - 1) :
                  ~(stem[k] = stem[k + 1] /\ stem[k] \in {"_", "."})
            /\ stem # <<>> =>
                  (stem[1] \notin {"_", "."} /\ stem[Len(stem)] \notin {"_", "."})

-----------------------------------------------------------------------------
(* Claims on the files of one process_images call *)

\* C27: within one process_images call no two different images are stored
\* under one path: a file the extractor wrote still holds the container's
\* image after the passes, and the reference written for an inline base64
\* image names a file that holds that image.
C27_OnePathOneImage ==
    (processor = "ImageProcessor" /\ ppc \in {"base64_done", "url_done", "done"}) =>
        /\ \A p \in MapPaths(extracted_images) :
              container[p.num].outcome = "ok" =>
                  /\ FileExists(files, p.num, p.ext)
                  /\ FileData(files, p.num, p.ext) = ImageOrdinal(container, p.num)
        /\ ppc = "base64_done" =>
              \A i \in 1..Len(content) :
                  (markdown_content[i].kind = "base64" /\ IsReference(content[i])) =>
                      /\ FileExists(files, content[i].num, content[i].ext)
                      /\ FileData(files, content[i].num, content[i].ext)
                            = markdown_content[i].data

-----------------------------------------------------------------------------
(* DocumentConverter.convert_document, called on one document after the     *)
(* other.  What the file system and the conversion library do is part of    *)
(* the document handed in.                                                  *)

\* the value None of result['error']; the error messages are given in
\* English
NoError == "None"

\* the texts the conversion library returns: one item
ConvTexts == {NumberPayloads(<<k>>) : k \in ItemKinds}

\* ImageProcessor.process_images as one function: the extraction and the
\* three passes, each stage handing its result to the next; raised: a
\* callback raised.  b, u and q are the results of the three passes.
ProcessedImages(c, b, u, q) ==
    IF b.raised THEN [raised |-> TRUE, content |-> c, count |-> 0]
    ELSE [raised |-> FALSE, content |-> q.content,
          count |-> b.count + u.count + q.count]

AfterUrlImages(c, b, u) ==
    ProcessedImages(c, b, u,
        process_existing_image_paths(u.content, u.files, u.counter, u.subst))

AfterBase64Images(c, b) ==
    AfterUrlImages(c, b, process_url_images(b.content, b.files, b.counter, b.subst))

AfterExtraction(c, ex) ==
    AfterBase64Images(c,
        process_base64_images(c, ex.files, 0, [i \in 1..Len(c) |-> 0], ex.map))

process_images(c, type, ok, cont) ==
    AfterExtraction(c, extract_images_from_source(type, ok, cont))

\* a document and what happens to it:
\*   valid        _validate_input_file returns True, returns False, raises
\*   markitdown   markitdown.convert returns a text, returns no content,
\*                raises KeyError, raises a FileConversionException naming
\*                w:ilvl, raises something else
\*   text         the text obtained; long_text: it has 50 characters or more
\*   images       the images the source holds
\*   helper       the helper called (_create_image_markdown,
\*                _try_alternative_docx_conversion,
\*                _try_image_based_pdf_conversion) returns a content or None
\*   placeholder  the explanatory document is saved, _save_markdown_file
\*                returns False, _get_output_path raises
\*   save         _save_markdown_file returns True or False
Doc(valid, suffix, markitdown, text, long_text, images, helper, placeholder, save) ==
    [valid |-> valid, suffix |-> suffix, markitdown |-> markitdown, text |-> text,
     long_text |-> long_text, images |-> images, helper |-> helper,
     placeholder |-> placeholder, save |-> save]

\* the documents convert_document is called on, by the branch they take; a
\* field that the call does not reach has its first value
ConvDocuments ==
    \* the validation fails or raises
    {Doc(v, "docx", "text", <<>>, FALSE, 0, "ok", "ok", "ok") : v \in {"invalid", "raises"}}
    \* an image file
    \cup {Doc("ok", "png", "text", <<>>, FALSE, 0, "ok", "ok", s) : s \in {"ok", "fail"}}
    \cup {Doc("ok", "png", "text", <<>>, FALSE, 0, "none", "ok", "ok")}
    \* the conversion library returns a text
    \cup {Doc("ok", x, "text", t, l, n, "ok", "ok", s) :
             x \in {"docx", "pdf"}, t \in ConvTexts, l \in BOOLEAN,
             n \in 0..MaxConvImages, s \in {"ok", "fail"}}
    \* it raises on w:ilvl for a .docx and the alternative conversion succeeds
    \cup {Doc("ok", "docx", "ilvl", t, l, n, "ok", "ok", s) :
             t \in ConvTexts, l \in BOOLEAN, n \in 0..MaxConvImages, s \in {"ok", "fail"}}
    \* the alternative conversion fails too: the explanatory document
    \cup {Doc("ok", "docx", "ilvl", <<>>, FALSE, 0, "none", p, "ok") :
             p \in {"ok", "fail", "raises"}}
    \* it returns no content for a .pdf: the image-based conversion
    \cup {Doc("ok", "pdf", "empty", <<>>, FALSE, n, "ok", "ok", s) :
             n \in 1..MaxConvImages, s \in {"ok", "fail"}}
    \cup {Doc("ok", "pdf", "empty", <<>>, FALSE, n, "none", "ok", "ok") :
             n \in 0..MaxConvImages}
    \* the other errors of the conversion library
    \cup {Doc("ok", "docx", m, <<>>, FALSE, 0, "ok", "ok", "ok") :
             m \in {"key_error", "empty", "other"}}
    \cup {Doc("ok", "pdf", m, <<>>, FALSE, 0, "ok", "ok", "ok") :
             m \in {"key_error", "ilvl", "other"}}

\* the result dictionary: output_file tells whether the path was set;
\* references and modes describe the Markdown that was saved: the image
\* references it holds and the insertion modes of PDFDocumentProcessor that
\* produced it
Result(success, error, output_file, images_extracted, references, ms) ==
    [success |-> success, error |-> error, output_file |-> output_file,
     images_extracted |-> images_extracted, references |-> references, modes |-> ms]

\* a return from inside the try block before the statistics are touched
EarlyReturn(res) == [result |-> res, successful |-> 0, failed |-> 0, images |-> 0]

\* except Exception: the error is recorded and the failure counted
ExceptionCaught(output_file) ==
    [result |-> Result(FALSE, "conversion raised: ...", output_file, 0, 0, {}),
     successful |-> 0, failed |-> 1, images |-> 0]

\* _save_markdown_file(final_content, output_path) and the statistics
save_markdown_file(d, images_count, references, ms) ==
    IF d.save = "ok"
    THEN [result |-> Result(TRUE, NoError, TRUE, images_count, references, ms),
          successful |-> 1, failed |-> 0, images |-> images_count]
    ELSE [result |-> Result(FALSE, "saving the file failed", TRUE, images_count, 0, {}),
          successful |-> 0, failed |-> 1, images |-> 0]

\* the images of the source as ImageProcessor's extractors list them
ConvContainer(d) == [i \in 1..d.images |-> MediaEntry("image", "png", "ok")]

\* the processed text is saved with the references it holds
SaveProcessed(d, r) ==
    IF r.raised THEN ExceptionCaught(TRUE)
    ELSE save_markdown_file(d, r.count,
             Cardinality({i \in 1..Len(r.content) : IsReference(r.content[i])}), {})

\* a text went through: process_images, then the file is saved
process_and_save(d) ==
    SaveProcessed(d, process_images(d.text, d.suffix, TRUE, ConvContainer(d)))

\* the image-based Markdown is saved; '![图片' is counted in it
SaveImageBased(d, r) ==
    save_markdown_file(d, Len(SelectSeq(r.lines, IsImageLine)),
                       Len(SelectSeq(r.lines, IsImageLine)), r.modes)

\* process_content of PDFDocumentProcessor is given the empty text
ImageBasedContent(d, ex) ==
    SaveImageBased(d, Pdf_process_content(<<>>, ex.map, ex.pages, ex.files))

\* _try_image_based_pdf_conversion: PDFDocumentProcessor extracts the images
\* and builds the Markdown from them
image_based_pdf(d) ==
    ImageBasedContent(d,
        Pdf_extract_images([i \in 1..d.images |-> [page |-> 1, fate |-> "ok"]]))

\* a variant of the explanatory-document branch that leaves the error set
placeholder_document_KeepError(d) ==
    CASE d.placeholder = "ok" ->
           EarlyReturn(Result(TRUE, "DOCX format compatibility problem", TRUE, 0, 0, {}))
      [] d.placeholder = "fail" ->
           EarlyReturn(Result(FALSE, "explanatory document not created", TRUE, 0, 0, {}))
      [] d.placeholder = "raises" ->
           EarlyReturn(Result(FALSE, "DOCX format problem, explanatory document not created", FALSE, 0, 0, {}))

\* every conversion of the .docx failed: an explanatory document is written
placeholder_document(d) ==
    CASE d.placeholder = "ok" ->
           EarlyReturn(Result(TRUE, NoError, TRUE, 0, 0, {}))
      [] d.placeholder = "fail" ->
           EarlyReturn(Result(FALSE, "explanatory document not created", TRUE, 0, 0, {}))
      [] d.placeholder = "raises" ->
           EarlyReturn(Result(FALSE, "DOCX format problem, explanatory document not created", FALSE, 0, 0, {}))

\* convert_document without the finally block
convert_document(d) ==
    IF d.valid = "raises" THEN ExceptionCaught(FALSE)
    ELSE IF d.valid = "invalid"
    THEN EarlyReturn(Result(FALSE, "input file validation failed", FALSE, 0, 0, {}))
    ELSE IF d.suffix = "png"
    THEN IF d.helper = "ok" THEN save_markdown_file(d, 1, 1, {})
         ELSE EarlyReturn(Result(FALSE, "image file processing failed", FALSE, 0, 0, {}))
    ELSE IF \/ d.markitdown = "text"
            \/ d.markitdown = "ilvl" /\ d.suffix = "docx" /\ d.helper = "ok"
    THEN process_and_save(d)
    ELSE IF d.markitdown = "key_error"
    THEN EarlyReturn(Result(FALSE, "document structure error: ...", FALSE, 0, 0, {}))
    ELSE IF d.markitdown = "ilvl" /\ d.suffix = "docx"
    THEN placeholder_document(d)
    ELSE IF d.suffix = "pdf" /\ d.markitdown = "empty"
    THEN IF d.helper = "ok" THEN image_based_pdf(d)
         ELSE EarlyReturn(Result(FALSE, "PDF holds no content and no images", FALSE, 0, 0, {}))
    ELSE EarlyReturn(Result(FALSE, "MarkItDown conversion raised: ...", FALSE, 0, 0, {}))

ConvInit ==
    /\ NormIdle
    /\ ReconIdle
    /\ PdfIdle
    /\ BatchIdle
    /\ PointIdle
    /\ ConvIdle

\* one call of convert_document; the finally block counts the file
ConvertDocumentCall ==
    /\ Len(calls) < MaxCalls
    /\ \E d \in ConvDocuments :
          LET r == convert_document(d)
          IN  /\ calls' = Append(calls, d)
              /\ results' = Append(results, r.result)
              /\ stats' =
                    [total_files |-> stats.total_files + 1,
                     successful_conversions |-> stats.successful_conversions + r.successful,
                     failed_conversions |-> stats.failed_conversions + r.failed,
                     total_images_extracted |-> stats.total_images_extracted + r.images]
    /\ UNCHANGED <<normVars, reconVars, pdfVars, batchVars, pointVars>>

ConvNext == ConvertDocumentCall

SpecConvert == ConvInit /\ [][ConvNext]_vars

\* C24: for a PDF whose converted text is not trivial, that has extracted
\* images and whose text holds no inline image placeholder, convert_document
\* hands the text to the positional insertion: the saved Markdown holds
\* references that Mode A or Mode B inserted for the extracted images.
C24_PdfDefersToInsertion ==
    \A k \in 1..Len(results) :
        ( /\ calls[k].suffix = "pdf"
          /\ calls[k].markitdown = "text"
          /\ calls[k].long_text
          /\ calls[k].images > 0
          /\ calls[k].text[1].kind = "text"
          /\ results[k].success )
        => /\ results[k].modes \cap {"A", "B"} # {}
           /\ results[k].references > 0

\* C25: every call of convert_document returns a result, and in every
\* result success = false goes with a non-empty error string and
\* success = true with no error, on every path.
C25_ErrorIffFailure ==
    /\ Len(results) = Len(calls)
    /\ \A k \in 1..Len(results) :
          /\ ~results[k].success => results[k].error \notin {NoError, ""}
          /\ results[k].success => results[k].error = NoError

C25_Witness ==
    /\ Len(results) = MaxCalls
    /\ \E k \in 1..Len(results) :
          calls[k].markitdown = "ilvl" /\ calls[k].helper = "none" /\ results[k].success
    /\ \E k \in 1..Len(results) :
          results[k].error = "conversion raised: ..." /\ results[k].output_file

\* C28: after any sequence of calls total_files is the number of calls,
\* successful_conversions + failed_conversions is total_files, and
\* successful_conversions is the number of results with success = true.
C28_StatisticsAddUp ==
    /\ stats.total_files = Len(results)
    /\ stats.successful_conversions + stats.failed_conversions = stats.total_files
    /\ stats.successful_conversions
          = Cardinality({k \in 1..Len(results) : results[k].success})

=============================================================================
